---- MODULE Spec2Model ----
(***************************************************************************)
(* Model of src/phystech.py: class Phystech, a user account with friends,  *)
(* friend requests, a block list and an activity history.                  *)
(*                                                                         *)
(* An account object is identified with its uid.  The class-level state    *)
(* (Phystech.__uid, __all_users, __user_history) and the per-instance      *)
(* relationship sets are the variables.  Each method is an operator from   *)
(* a program state (a record of those variables plus the outcome of the    *)
(* running call) to the program state it leaves; an action applies one     *)
(* public method call to the current state.  A raised exception is the     *)
(* field "raised"; the statements after the raise are not executed, the    *)
(* ones before it keep their effect, as in Python.                         *)
(*                                                                         *)
(* The timestamp of a history record (strftime of the wall clock) and the  *)
(* descriptive fields (name, status, birthday, graduation year, login,     *)
(* password) are not read by any relationship method and are left out:     *)
(* a history record is its action label.                                   *)
(***************************************************************************)
EXTENDS Integers, Sequences, FiniteSets, TLC

VARIABLES uid, all_users, friends, block_users, incoming, outcoming,
          user_history, ncalls, call, raised, printed, returned

vars == <<uid, all_users, friends, block_users, incoming, outcoming,
          user_history, ncalls, call, raised, printed, returned>>

\* Method calls made in one run.
MaxCalls == 3
\* Accounts a run may create on top of the class's empty state (SpecCreate).
MaxUsers == 2

\* Python's None where an int or an object is expected.
None == -1
\* No exception raised by the call.
NoError == "none"

\* Peer ids a caller may pass: the ids in use plus the next one, which no account has.
PeerIds == 0 .. uid

----------------------------------------------------------------------------
(* The program state as one value, and the steps of a method on it. *)

\* What a call that has not yet raised, printed or returned anything starts from.
Cur ==
    [uid |-> uid, all_users |-> all_users, friends |-> friends,
     block_users |-> block_users, incoming |-> incoming, outcoming |-> outcoming,
     user_history |-> user_history,
     raised |-> NoError, printed |-> <<>>, returned |-> [kind |-> "None", val |-> {}]]

raise(st, e) == [st EXCEPT !.raised = e]

stdout(st, m) == [st EXCEPT !.printed = Append(@, m)]

return(st, kind, val) == [st EXCEPT !.returned = [kind |-> kind, val |-> val]]

\* set.remove(x): KeyError when x is not in the set.
set_remove(st, field, owner, x) ==
    IF x \in st[field][owner]
    THEN [st EXCEPT ![field][owner] = @ \ {x}]
    ELSE raise(st, "KeyError")

set_add(st, field, owner, x) == [st EXCEPT ![field][owner] = @ \cup {x}]

\* _update_online_status that puts the new record in front of the older ones.
_update_online_status_in_front(st, self, action) ==
    [st EXCEPT !.user_history[self] = <<action>> \o @]

_update_online_status(st, self, action) ==
    [st EXCEPT !.user_history[self] = Append(@, action)]

\* A scan that falls back on the first account when no uid matches.
_get_phystech_object_first(st, user_uid) ==
    IF user_uid \in st.all_users THEN user_uid ELSE 0

\* The uid of the account found, or None when the scan finds none (KeyError).
_get_phystech_object(st, user_uid) ==
    IF user_uid \in st.all_users THEN user_uid ELSE None

\* "if not user: user = self._get_phystech_object(user_uid)"
resolve(st, user_uid, user) ==
    IF user = None THEN _get_phystech_object(st, user_uid) ELSE user

\* The getters as the methods call them, with flag False: no history record.
get_block_users_list(st, self) == st.block_users[self]
get_friends_list(st, self) == st.friends[self]
get_incoming_friend_requests_list(st, self) == st.incoming[self]

----------------------------------------------------------------------------
(* The relationship methods. *)

\* accept_friend_request with the friendship recorded on the accepting side only.
accept_friend_request_one_sided(st, self, user_uid, decision, user) ==
    LET s1 == _update_online_status(st, self, "Accept friend")
        u  == resolve(s1, user_uid, user)
    IN  IF u = None THEN raise(s1, "KeyError")
        ELSE IF u \notin get_incoming_friend_requests_list(s1, self)
        THEN stdout(s1, "not in requests")
        ELSE LET s2 == IF decision THEN set_add(s1, "friends", self, u) ELSE s1
                 s3 == set_remove(s2, "incoming", self, u)
             IN  IF s3.raised # NoError THEN s3
                 ELSE set_remove(s3, "outcoming", u, self)

\* accept_friend_request that drops the request but never records the friendship.
accept_friend_request_no_friendship(st, self, user_uid, decision, user) ==
    LET s1 == _update_online_status(st, self, "Accept friend")
        u  == resolve(s1, user_uid, user)
    IN  IF u = None THEN raise(s1, "KeyError")
        ELSE IF u \notin get_incoming_friend_requests_list(s1, self)
        THEN stdout(s1, "not in requests")
        ELSE LET s3 == set_remove(s1, "incoming", self, u)
             IN  IF s3.raised # NoError THEN s3
                 ELSE set_remove(s3, "outcoming", u, self)

\* accept_friend_request that leaves the request in the sender's outgoing set.
accept_friend_request_keeps_outgoing(st, self, user_uid, decision, user) ==
    LET s1 == _update_online_status(st, self, "Accept friend")
        u  == resolve(s1, user_uid, user)
    IN  IF u = None THEN raise(s1, "KeyError")
        ELSE IF u \notin get_incoming_friend_requests_list(s1, self)
        THEN stdout(s1, "not in requests")
        ELSE LET s2 == IF decision
                       THEN set_add(set_add(s1, "friends", self, u), "friends", u, self)
                       ELSE s1
             IN  set_remove(s2, "incoming", self, u)

accept_friend_request(st, self, user_uid, decision, user) ==
    LET s1 == _update_online_status(st, self, "Accept friend")
        u  == resolve(s1, user_uid, user)
    IN  IF u = None THEN raise(s1, "KeyError")
        ELSE IF u \notin get_incoming_friend_requests_list(s1, self)
        THEN stdout(s1, "not in requests")
        ELSE LET s2 == IF decision
                       THEN set_add(set_add(s1, "friends", self, u), "friends", u, self)
                       ELSE s1
                 s3 == set_remove(s2, "incoming", self, u)
             IN  IF s3.raised # NoError THEN s3
                 ELSE set_remove(s3, "outcoming", u, self)

\* remove_friend without the membership test before set.remove.
remove_friend_unguarded(st, self, user_uid, user, flag) ==
    LET s1 == _update_online_status(st, self, "Remove friend")
        u  == resolve(s1, user_uid, user)
    IN  IF u = None THEN raise(s1, "KeyError")
        ELSE IF self = u THEN raise(s1, "AssertionError")
        ELSE LET s2 == set_remove(s1, "friends", self, u)
                 s3 == IF s2.raised # NoError THEN s2
                       ELSE set_remove(s2, "friends", u, self)
             IN  IF s3.raised # NoError THEN s3
                 ELSE stdout(s3, "deleted")

remove_friend(st, self, user_uid, user, flag) ==
    LET s1 == _update_online_status(st, self, "Remove friend")
        u  == resolve(s1, user_uid, user)
    IN  IF u = None THEN raise(s1, "KeyError")
        ELSE IF self = u THEN raise(s1, "AssertionError")
        ELSE IF u \notin get_friends_list(s1, self)
        THEN IF flag THEN stdout(s1, "not your friend") ELSE s1
        ELSE LET s2 == set_remove(s1, "friends", self, u)
                 s3 == set_remove(s2, "friends", u, self)
             IN  IF s3.raised # NoError THEN s3
                 ELSE stdout(s3, "deleted")

block_user(st, self, user_uid, user) ==
    LET s1 == _update_online_status(st, self, "Block user")
        u  == resolve(s1, user_uid, user)
    IN  IF u = None THEN raise(s1, "KeyError")
        ELSE IF self = u THEN raise(s1, "AssertionError")
        ELSE IF u \in get_block_users_list(s1, self)
        THEN stdout(s1, "already blocked")
        ELSE LET s2 == set_add(s1, "block_users", self, u)
                 s3 == remove_friend(s2, self, user_uid, u, FALSE)
                 s4 == accept_friend_request(s3, self, u, FALSE, u)
             IN  IF s3.raised # NoError THEN s3
                 ELSE IF s4.raised # NoError THEN s4
                 ELSE stdout(s4, "blocked")

\* unblock_user without the assertion that the peer is another account.
unblock_user_no_assert(st, self, user_uid, user, flag) ==
    LET s1 == IF flag THEN _update_online_status(st, self, "Unblock user") ELSE st
        u  == resolve(s1, user_uid, user)
    IN  IF u = None THEN raise(s1, "KeyError")
        ELSE IF u \notin get_block_users_list(s1, self)
        THEN IF flag THEN stdout(s1, "not blocked") ELSE s1
        ELSE LET s2 == set_remove(s1, "block_users", self, u)
             IN  IF flag THEN stdout(s2, "unblocked") ELSE s2

\* unblock_user without the membership test before set.remove.
unblock_user_unguarded(st, self, user_uid, user, flag) ==
    LET s1 == IF flag THEN _update_online_status(st, self, "Unblock user") ELSE st
        u  == resolve(s1, user_uid, user)
    IN  IF u = None THEN raise(s1, "KeyError")
        ELSE IF self = u THEN raise(s1, "AssertionError")
        ELSE LET s2 == set_remove(s1, "block_users", self, u)
             IN  IF s2.raised # NoError THEN s2
                 ELSE IF flag THEN stdout(s2, "unblocked") ELSE s2

unblock_user(st, self, user_uid, user, flag) ==
    LET s1 == IF flag THEN _update_online_status(st, self, "Unblock user") ELSE st
        u  == resolve(s1, user_uid, user)
    IN  IF u = None THEN raise(s1, "KeyError")
        ELSE IF self = u THEN raise(s1, "AssertionError")
        ELSE IF u \notin get_block_users_list(s1, self)
        THEN IF flag THEN stdout(s1, "not blocked") ELSE s1
        ELSE LET s2 == set_remove(s1, "block_users", self, u)
             IN  IF flag THEN stdout(s2, "unblocked") ELSE s2

\* add_friend that records the request on the sender's side only.
add_friend_outgoing_only(st, self, user_uid, user) ==
    LET s1 == _update_online_status(st, self, "Add friend")
        u  == resolve(s1, user_uid, user)
    IN  IF u = None THEN raise(s1, "KeyError")
        ELSE IF self = u THEN raise(s1, "AssertionError")
        ELSE IF self \in get_block_users_list(s1, u)
        THEN stdout(s1, "you are blocked")
        ELSE IF u \in get_friends_list(s1, self)
        THEN stdout(s1, "already a friend")
        ELSE IF self \in get_incoming_friend_requests_list(s1, u)
        THEN stdout(s1, "already sent")
        ELSE LET s2 == unblock_user(s1, self, u, u, FALSE)
                 s3 == set_add(s2, "outcoming", self, u)
             IN  IF s2.raised # NoError THEN s2
                 ELSE stdout(s3, "request sent")

\* add_friend that looks for the peer on the sender's block list, not the reverse.
add_friend_ignores_block(st, self, user_uid, user) ==
    LET s1 == _update_online_status(st, self, "Add friend")
        u  == resolve(s1, user_uid, user)
    IN  IF u = None THEN raise(s1, "KeyError")
        ELSE IF self = u THEN raise(s1, "AssertionError")
        ELSE IF u \in get_block_users_list(s1, self)
        THEN stdout(s1, "you are blocked")
        ELSE IF u \in get_friends_list(s1, self)
        THEN stdout(s1, "already a friend")
        ELSE IF self \in get_incoming_friend_requests_list(s1, u)
        THEN stdout(s1, "already sent")
        ELSE LET s2 == unblock_user(s1, self, u, u, FALSE)
                 s3 == set_add(s2, "outcoming", self, u)
                 s4 == set_add(s3, "incoming", u, self)
             IN  IF s2.raised # NoError THEN s2
                 ELSE stdout(s4, "request sent")

add_friend(st, self, user_uid, user) ==
    LET s1 == _update_online_status(st, self, "Add friend")
        u  == resolve(s1, user_uid, user)
    IN  IF u = None THEN raise(s1, "KeyError")
        ELSE IF self = u THEN raise(s1, "AssertionError")
        ELSE IF self \in get_block_users_list(s1, u)
        THEN stdout(s1, "you are blocked")
        ELSE IF u \in get_friends_list(s1, self)
        THEN stdout(s1, "already a friend")
        ELSE IF self \in get_incoming_friend_requests_list(s1, u)
        THEN stdout(s1, "already sent")
        ELSE LET s2 == unblock_user(s1, self, u, u, FALSE)
                 s3 == set_add(s2, "outcoming", self, u)
                 s4 == set_add(s3, "incoming", u, self)
             IN  IF s2.raised # NoError THEN s2
                 ELSE stdout(s4, "request sent")

\* get_mutual_friends that returns the caller's own friends.
get_mutual_friends_own(st, self, uid_user, user) ==
    LET s1 == _update_online_status(st, self, "Get mutual friends")
        u  == resolve(s1, uid_user, user)
    IN  IF u = None THEN raise(s1, "KeyError")
        ELSE return(s1, "set", s1.friends[self])

get_mutual_friends(st, self, uid_user, user) ==
    LET s1 == _update_online_status(st, self, "Get mutual friends")
        u  == resolve(s1, uid_user, user)
    IN  IF u = None THEN raise(s1, "KeyError")
        ELSE return(s1, "set", s1.friends[self] \cap s1.friends[u])

describe_human(st, self, uid_user) ==
    LET s1 == _update_online_status(st, self, "Describe " \o ToString(uid_user))
        u  == _get_phystech_object(s1, uid_user)
    IN  IF u = None THEN raise(s1, "KeyError")
        ELSE return(s1, "str", {u})

----------------------------------------------------------------------------
(* Construction. *)

\* Optional[set]: <<>> is None, <<S>> is the set S.
_initialize_friends(fr) ==
    IF fr = <<>> THEN {}
    ELSE IF fr[1] = {} THEN {}
    ELSE fr[1]

Extend(f, k, v) == [x \in DOMAIN f \cup {k} |-> IF x = k THEN v ELSE f[x]]

\* A constructor that takes the class counter as the uid and leaves the counter
\* as it was.
__init__counter_kept(st, fr) ==
    [st EXCEPT !.all_users = @ \cup {st.uid},
               !.friends = Extend(@, st.uid, _initialize_friends(fr)),
               !.block_users = Extend(@, st.uid, {}),
               !.incoming = Extend(@, st.uid, {}),
               !.outcoming = Extend(@, st.uid, {}),
               !.user_history = Extend(@, st.uid, <<"Create an account">>)]

\* Phystech(...): the new account takes the class counter as its uid.
__init__(st, fr) ==
    [st EXCEPT !.uid = @ + 1,
               !.all_users = @ \cup {st.uid},
               !.friends = Extend(@, st.uid, _initialize_friends(fr)),
               !.block_users = Extend(@, st.uid, {}),
               !.incoming = Extend(@, st.uid, {}),
               !.outcoming = Extend(@, st.uid, {}),
               !.user_history = Extend(@, st.uid, <<"Create an account">>)]

\* The class attributes before any account exists.
ClassState ==
    [uid |-> 0, all_users |-> {}, friends |-> <<>>, block_users |-> <<>>,
     incoming |-> <<>>, outcoming |-> <<>>, user_history |-> <<>>,
     raised |-> NoError, printed |-> <<>>, returned |-> [kind |-> "None", val |-> {}]]

\* The module creates three accounts when it is imported: ov, piter, john.
Imported == __init__(__init__(__init__(ClassState, <<>>), <<>>), <<>>)

----------------------------------------------------------------------------
(* Actions: the program state becomes the one a call leaves. *)

Becomes(st) ==
    /\ uid' = st.uid
    /\ all_users' = st.all_users
    /\ friends' = st.friends
    /\ block_users' = st.block_users
    /\ incoming' = st.incoming
    /\ outcoming' = st.outcoming
    /\ user_history' = st.user_history
    /\ raised' = st.raised
    /\ printed' = st.printed
    /\ returned' = st.returned

Called(op, self, peer, decision) ==
    /\ ncalls < MaxCalls
    /\ ncalls' = ncalls + 1
    /\ call' = [op |-> op, self |-> self, peer |-> peer, decision |-> decision]

NoCall == [op |-> "import", self |-> None, peer |-> None, decision |-> FALSE]

Init ==
    /\ uid = Imported.uid
    /\ all_users = Imported.all_users
    /\ friends = Imported.friends
    /\ block_users = Imported.block_users
    /\ incoming = Imported.incoming
    /\ outcoming = Imported.outcoming
    /\ user_history = Imported.user_history
    /\ raised = NoError
    /\ printed = <<>>
    /\ returned = [kind |-> "None", val |-> {}]
    /\ ncalls = 0
    /\ call = NoCall

AddFriend ==
    \E self \in all_users, peer \in PeerIds :
        /\ Called("add_friend", self, peer, FALSE)
        /\ Becomes(add_friend(Cur, self, peer, None))

AcceptFriendRequest ==
    \E self \in all_users, peer \in PeerIds, decision \in BOOLEAN :
        /\ Called("accept_friend_request", self, peer, decision)
        /\ Becomes(accept_friend_request(Cur, self, peer, decision, None))

RemoveFriend ==
    \E self \in all_users, peer \in PeerIds :
        /\ Called("remove_friend", self, peer, FALSE)
        /\ Becomes(remove_friend(Cur, self, peer, None, TRUE))

BlockUser ==
    \E self \in all_users, peer \in PeerIds :
        /\ Called("block_user", self, peer, FALSE)
        /\ Becomes(block_user(Cur, self, peer, None))

UnblockUser ==
    \E self \in all_users, peer \in PeerIds :
        /\ Called("unblock_user", self, peer, FALSE)
        /\ Becomes(unblock_user(Cur, self, peer, None, TRUE))

GetMutualFriends ==
    \E self \in all_users, peer \in PeerIds :
        /\ Called("get_mutual_friends", self, peer, FALSE)
        /\ Becomes(get_mutual_friends(Cur, self, peer, None))

DescribeHuman ==
    \E self \in all_users, peer \in PeerIds :
        /\ Called("describe_human", self, peer, FALSE)
        /\ Becomes(describe_human(Cur, self, peer))

Next ==
    \/ AddFriend
    \/ AcceptFriendRequest
    \/ RemoveFriend
    \/ BlockUser
    \/ UnblockUser
    \/ GetMutualFriends
    \/ DescribeHuman

Spec == Init /\ [][Next]_vars

----------------------------------------------------------------------------
(* Properties. *)

\* The four relationship sets of every account, of a program state and of the current one.
RelOf(st) == <<st.friends, st.block_users, st.incoming, st.outcoming>>
Rel == <<friends, block_users, incoming, outcoming>>

\* The state a finished call leaves to the next call: its outcome is consumed.
Settled(st) ==
    [st EXCEPT !.raised = NoError, !.printed = <<>>,
               !.returned = [kind |-> "None", val |-> {}]]

\* The call that led to the current state.
Did(op, self, peer) == call.op = op /\ call.self = self /\ call.peer = peer

\* C1: friendship is symmetric in every reachable state: a is in b's friends
\* exactly when b is in a's friends.
C1_FriendshipSymmetric ==
    \A a, b \in all_users : (a \in friends[b]) <=> (b \in friends[a])

\* A request was accepted and the two accounts are now friends.
C1_Witness ==
    /\ call.op = "accept_friend_request"
    /\ call.decision
    /\ call.peer \in all_users
    /\ call.peer # call.self
    /\ call.peer \in friends[call.self]
    /\ call.self \in friends[call.peer]

\* C2: pending requests are paired in every reachable state: b is in a's
\* incoming requests exactly when a is in b's outgoing requests.
C2_RequestsPaired ==
    \A a, b \in all_users : (b \in incoming[a]) <=> (a \in outcoming[b])

\* block_user found a pending request from the peer and its cascade cleared
\* both sides of it, while another request is still pending somewhere.
C2_Witness ==
    /\ call.op = "block_user"
    /\ printed = <<"blocked">>
    /\ \E a, b \in all_users : b \in incoming[a] /\ a \in outcoming[b]

\* C3: in every reachable state, an account a that has b on its block list is
\* not friends with b and has no pending request with b in either direction.
C3_BlockedImpliesNoRelation ==
    \A a, b \in all_users :
        b \in block_users[a] =>
            /\ b \notin friends[a] /\ a \notin friends[b]
            /\ b \notin incoming[a] /\ a \notin outcoming[b]
            /\ b \notin outcoming[a] /\ a \notin incoming[b]

\* C4: right after a.block_user(b) has blocked b (b was not blocked before),
\* the two are not friends and no request is pending between them, either way.
C4_AfterBlockNoRelation ==
    \A a, b \in all_users :
        (Did("block_user", a, b) /\ a # b /\ printed # <<>>
            /\ printed[Len(printed)] = "blocked") =>
            /\ b \notin friends[a] /\ a \notin friends[b]
            /\ b \notin incoming[a] /\ a \notin outcoming[b]
            /\ b \notin outcoming[a] /\ a \notin incoming[b]

\* The state a.add_friend(b) followed immediately by
\* b.accept_friend_request(a, True) leaves, from the current state.
AddThenAccept(a, b) ==
    accept_friend_request(Settled(add_friend(Cur, a, b, None)), b, a, TRUE, None)

C6_BlockedCannotRequest ==
    [][/\ (ncalls' = ncalls + 1 /\ call'.op = "add_friend"
              /\ call'.peer \in all_users
              /\ call'.self \in block_users[call'.peer]) =>
              (Rel' = Rel /\ raised' = NoError /\ printed' = <<"you are blocked">>)
       /\ \A b \in all_users : \A a \in block_users[b] :
              /\ (a \notin incoming[b]) => (a \notin incoming'[b])
              /\ (b \notin outcoming[a]) => (b \notin outcoming'[a])]_vars

\* a called add_friend(b) while on b's block list and was turned away.
C6_Witness ==
    /\ call.op = "add_friend"
    /\ call.peer \in all_users
    /\ call.self \in block_users[call.peer]
    /\ printed = <<"you are blocked">>
    /\ call.self \notin incoming[call.peer]

SelfTargeted == call.self # None /\ call.peer = call.self

\* C7 as stated: every relationship operation called with the acting account
\* itself as the peer fails with an error.
C7_SelfTargetAlwaysFails ==
    (SelfTargeted /\ call.op \in {"add_friend", "accept_friend_request", "remove_friend",
                                  "block_user", "unblock_user", "get_mutual_friends"})
        => raised # NoError

\* C7 amended: add_friend, remove_friend, block_user and unblock_user called
\* with the acting account itself as the peer fail with an assertion error;
\* accept_friend_request and get_mutual_friends so called return normally.
C7_SelfTargetFails ==
    /\ (SelfTargeted /\ call.op \in {"add_friend", "remove_friend", "block_user",
                                     "unblock_user"})
           => raised = "AssertionError"
    /\ (SelfTargeted /\ call.op \in {"accept_friend_request", "get_mutual_friends"})
           => raised = NoError

\* An account tried to unblock itself and the call raised.
C7_Witness ==
    /\ SelfTargeted
    /\ call.op = "unblock_user"
    /\ raised = "AssertionError"

\* C8: every call of a relationship operation appends exactly one record to the
\* history of the invoking account.
C8_OneRecordPerCall ==
    [][\A u \in all_users :
          (ncalls' = ncalls + 1 /\ call'.self = u) =>
              Len(user_history'[u]) = Len(user_history[u]) + 1]_vars

\* C9: when self has an incoming request from peer, self.add_friend(peer)
\* changes no relationship set, so no two accounts ever hold requests to each
\* other in both directions at once.
C9_NoCrossingRequests ==
    /\ \A a, b \in all_users :
           (a # b /\ b \in incoming[a]) => RelOf(add_friend(Cur, a, b, None)) = Rel
    /\ \A a, b \in all_users : ~(b \in incoming[a] /\ a \in incoming[b])

RelOps == {"add_friend", "accept_friend_request", "remove_friend", "block_user",
           "unblock_user"}

\* The step makes the call that was made just before, with the same arguments.
Repeats == ncalls' = ncalls + 1 /\ call' = call /\ call.op \in RelOps

----------------------------------------------------------------------------
(* Construction at run time: accounts created one by one from the class's  *)
(* empty state, between the method calls.                                  *)

\* The friends argument of the constructor: omitted, an empty set, or a set
\* of ids, here the set that holds the id of the first account.
FriendsArgs ==
    {<<>>, <<{}>>, <<{0}>>}

Create ==
    \E fr \in FriendsArgs :
        /\ uid < MaxUsers
        /\ Becomes([__init__(Cur, fr) EXCEPT !.raised = raised, !.printed = printed,
                                             !.returned = returned])
        /\ UNCHANGED <<ncalls, call>>

InitClass ==
    /\ uid = ClassState.uid
    /\ all_users = ClassState.all_users
    /\ friends = ClassState.friends
    /\ block_users = ClassState.block_users
    /\ incoming = ClassState.incoming
    /\ outcoming = ClassState.outcoming
    /\ user_history = ClassState.user_history
    /\ raised = NoError
    /\ printed = <<>>
    /\ returned = [kind |-> "None", val |-> {}]
    /\ ncalls = 0
    /\ call = NoCall

\* Calls made in a run that also creates its accounts.
MaxCallsNew == 2

EarlyAddFriend == ncalls < MaxCallsNew /\ AddFriend
EarlyAcceptFriendRequest == ncalls < MaxCallsNew /\ AcceptFriendRequest
EarlyRemoveFriend == ncalls < MaxCallsNew /\ RemoveFriend
EarlyBlockUser == ncalls < MaxCallsNew /\ BlockUser
EarlyUnblockUser == ncalls < MaxCallsNew /\ UnblockUser
EarlyGetMutualFriends == ncalls < MaxCallsNew /\ GetMutualFriends
EarlyDescribeHuman == ncalls < MaxCallsNew /\ DescribeHuman

NextCreate ==
    \/ Create
    \/ EarlyAddFriend
    \/ EarlyAcceptFriendRequest
    \/ EarlyRemoveFriend
    \/ EarlyBlockUser
    \/ EarlyUnblockUser
    \/ EarlyGetMutualFriends
    \/ EarlyDescribeHuman

SpecCreate == InitClass /\ [][NextCreate]_vars

----------------------------------------------------------------------------
(* Properties of the accounts' relationship sets, histories and ids.       *)

\* C11: in every reachable state no account's friends set and no account's
\* blocked set contains the account's own id.
C11_NoSelfInFriendsOrBlocked ==
    \A a \in all_users : a \notin friends[a] /\ a \notin block_users[a]

\* The step calls a relationship method with a peer id that no account has.
UnknownPeer ==
    ncalls' = ncalls + 1 /\ call'.op \in RelOps /\ call'.peer \notin all_users

\* C12: a relationship operation given a peer id that no account has fails with
\* KeyError and leaves the friends, blocked, incoming and outgoing sets of every
\* account unchanged.
C12_UnknownPeerFails ==
    [][UnknownPeer => (raised' = "KeyError" /\ Rel' = Rel)]_vars

\* A request is pending and the last call, an add_friend to an id that no
\* account has, failed with KeyError.
C12_Witness ==
    /\ call.op = "add_friend"
    /\ call.self \in all_users
    /\ call.peer \notin all_users
    /\ raised = "KeyError"
    /\ \E a \in all_users : incoming[a] # {}

\* C13: each account's history is append-only (every earlier history is a prefix
\* of every later one), and an operation invoked by account a appends only to
\* a's history, never to the peer's or a third account's.
C13_HistoryAppendOnly ==
    [][\A u \in all_users :
           /\ Len(user_history'[u]) >= Len(user_history[u])
           /\ SubSeq(user_history'[u], 1, Len(user_history[u])) = user_history[u]
           /\ (u # call'.self => user_history'[u] = user_history[u])]_vars

\* An account blocked another after earlier calls of its own: its history
\* holds the records of all of them, the peer's only the creation record.
C13_Witness ==
    /\ ncalls >= 2
    /\ call.op = "block_user"
    /\ call.peer \in all_users \ {call.self}
    /\ raised = NoError
    /\ Len(user_history[call.self]) >= 5
    /\ user_history[call.peer] = <<"Create an account">>

\* The ids that the accounts of a program state hold, one per account.
Ids == all_users

\* C14: account ids are unique and monotonically assigned: the ids in use are
\* exactly the values the class counter has passed, so there are as many ids as
\* accounts created; a newly created account's id is not the id of any existing
\* account and is strictly greater than each of them; and no step, creation or
\* method call, takes an id away from an account or gives it another.
C14_IdsUniqueMonotonic ==
    /\ [](Ids = 0 .. uid - 1 /\ Cardinality(Ids) = uid)
    /\ [][IF uid' # uid
          THEN /\ Ids' = Ids \cup {uid}
               /\ uid \notin Ids
               /\ \A a \in Ids : uid > a
          ELSE /\ Ids' = Ids
               /\ DOMAIN user_history' = DOMAIN user_history]_vars

\* Two accounts exist, with the ids 0 and 1 in the order of their creation, and
\* one of them has made a call since.
C14_Witness ==
    /\ Ids = {0, 1}
    /\ uid = 2
    /\ ncalls = 1
    /\ call.self \in Ids
    /\ DOMAIN user_history = {0, 1}

\* The step is a get_mutual_friends call on an existing account.
AsksMutual ==
    ncalls' = ncalls + 1 /\ call'.op = "get_mutual_friends" /\ call'.peer \in all_users

Answers ==
    /\ ncalls' = ncalls + 1
    /\ call'.op = "accept_friend_request"
    /\ call'.peer \in all_users

SoftNoOp ==
    LET op   == call'.op
        self == call'.self
        peer == call'.peer
    IN  /\ ncalls' = ncalls + 1
        /\ peer \in all_users
        /\ \/ /\ op = "add_friend"
              /\ peer # self
              /\ peer \in friends[self] \/ self \in incoming[peer]
           \/ op = "remove_friend" /\ peer # self /\ peer \notin friends[self]
           \/ op = "block_user" /\ peer # self /\ peer \in block_users[self]
           \/ op = "unblock_user" /\ peer # self /\ peer \notin block_users[self]
           \/ op = "accept_friend_request" /\ peer \notin incoming[self]

\* C17: every soft no-op outcome (add_friend when already friends or when a
\* request from self to the peer is already pending, remove_friend when the two
\* are not friends, block_user when the peer is already blocked, unblock_user
\* when the peer is not blocked, accept_friend_request when no request from the
\* peer is pending) returns normally and changes no friends, blocked, incoming
\* or outgoing set of any account.
C17_SoftNoOpChangesNothing ==
    [][SoftNoOp => (raised' = NoError /\ Rel' = Rel)]_vars

\* An account that had a request pending to another asked again: the second
\* add_friend printed that the request was already sent, and it is still the
\* one request.
C17_Witness ==
    /\ ncalls >= 2
    /\ call.op = "add_friend"
    /\ call.peer \in all_users \ {call.self}
    /\ printed = <<"already sent">>
    /\ raised = NoError
    /\ call.self \in incoming[call.peer]
    /\ call.peer \in outcoming[call.self]

\* C18: account creation always yields an account whose friends, blocked,
\* incoming and outgoing sets are all empty, whatever the constructor was
\* given (a friends argument included), and whose history is exactly one
\* creation record.
C18_CreatedEmpty ==
    [][uid' # uid =>
           /\ friends'[uid] = {}
           /\ block_users'[uid] = {}
           /\ incoming'[uid] = {}
           /\ outcoming'[uid] = {}
           /\ user_history'[uid] = <<"Create an account">>]_vars

\* C19: in every reachable state, if account b has account a on its block list
\* then a has no pending request to b: a is not in b.incoming and b is not in
\* a.outgoing.
C19_BlockedHasNoRequest ==
    \A a, b \in all_users :
        a \in block_users[b] => (a \notin incoming[b] /\ b \notin outcoming[a])

\* C20: friendship and a pending request never coexist for a pair: in every
\* reachable state, if a and b are friends then neither has a pending request
\* to the other.
C20_FriendsHaveNoRequest ==
    \A a, b \in all_users :
        (a \in friends[b] /\ b \in friends[a]) =>
            (a \notin incoming[b] /\ b \notin incoming[a])

====
